---- MODULE Spec2Model ----
(***************************************************************************)
(* Clinical trial recommendation pipeline of TranscriptScribe:             *)
(* ClinicalTrialService.create_recommended_trials with its two LLM agents, *)
(* run against the Supabase storage adapter.  One run is a sequence of     *)
(* steps, one per external call (storage, trial search, LLM); runs follow  *)
(* each other on the same storage (Spec, SpecReliable), a single run       *)
(* starts on any tables (SpecRun, SpecFair), or two runs interleave at     *)
(* their storage calls (SpecConcurrent).  GeminiAdapter.call_llm_json, the *)
(* caller of the LLM, is modelled on texts of characters (SpecLlm).        *)
(* TranscriptService.process_raw_transcript with its handler and the two   *)
(* constructions of a ParsedTranscript (SpecTranscript), and               *)
(* ChatService.ask_clinical_trial_question (SpecChat), are modelled in the *)
(* same way, one step per external call.                                   *)
(***************************************************************************)
EXTENDS Integers, Sequences, FiniteSets, TLC

\* ------------------------------------------------------------------ bounds
\* Calls of create_recommended_trials in one behaviour.
MaxRuns == 2
\* Pieces (fences, blanks, JSON tokens) a completion of the LLM is made of.
MaxPieces == 5
\* Calls of ask_clinical_trial_question in one behaviour.
MaxAsks == 2

\* ----------------------------------------------------------------- domains
\* External identifiers the trial registry knows.
Ids == {"NCT1", "NCT2"}
\* Request parameters: one id that storage holds, one that it does not.
PatientIds == {"P1", "P0"}
TranscriptIds == {"T1", "T0"}
\* Rows of the patients and transcripts tables (never written by this service).
patients == {"P1"}
transcripts == {"T1"}

Range(s) == {s[i] : i \in 1..Len(s)}
Perms(S) == {s \in [1..Cardinality(S) -> S] : \A i, j \in 1..Cardinality(S) : s[i] = s[j] => i = j}
\* Lists of identifiers without repetition.
IdLists == UNION {Perms(S) : S \in SUBSET Ids}
\* Results of the trial search: the registry gives each trial once, and in
\* its own order, NCT1 before NCT2 (the other lists are these up to the names
\* of the trials).
CandidateLists == {<<>>, <<"NCT1">>, <<"NCT1", "NCT2">>}

\* JSON values an LLM can put under a key: a list of ids, null, or a number.
ListVal(s) == [t |-> "list", v |-> s]
NoneVal == [t |-> "null", v |-> <<>>]
NumVal == [t |-> "num", v |-> <<>>]
Values == {ListVal(s) : s \in IdLists} \cup {NoneVal, NumVal}
EmptyList == ListVal(<<>>)

\* Outcomes of llm_adapter.call_llm_json for the classifier: the call raises,
\* the parsed JSON is not an object, or it is an object with some of the keys.
ClsKeys == {"eligible_trial_ids", "uncertain_trial_ids"}
ClsObj(keys, e, u) == [t |-> "obj", keys |-> keys, e |-> e, u |-> u]
ClsResponses ==
    {[t |-> "raise", keys |-> {}, e |-> NoneVal, u |-> NoneVal],
     [t |-> "nonobj", keys |-> {}, e |-> NoneVal, u |-> NoneVal],
     ClsObj({}, NoneVal, NoneVal)}
    \cup {ClsObj({"eligible_trial_ids"}, e, NoneVal) : e \in Values}
    \cup {ClsObj({"uncertain_trial_ids"}, NoneVal, u) : u \in Values}
    \cup {ClsObj(ClsKeys, e, u) : e \in Values, u \in Values}
\* ... and for the ranker.
RankResponses ==
    {[t |-> "raise", has |-> FALSE, r |-> NoneVal],
     [t |-> "nonobj", has |-> FALSE, r |-> NoneVal],
     [t |-> "obj", has |-> FALSE, r |-> NoneVal]}
    \cup {[t |-> "obj", has |-> TRUE, r |-> r] : r \in Values}
Unset == [t |-> "unset"]

\* ------------------------------------------------------------ pure helpers
\* Python len(): defined on lists only; on None or a number it raises TypeError.
LenRaises(x) == x.t # "list"
\* Python truthiness of a list value.
Truthy(x) == x.t = "list" /\ Len(x.v) > 0

\* _eligibility_filter_agent, after the LLM call.
\* (the same with a missing key read as an empty list)
EligibilityFilterAgentEitherKey(response) ==
    IF response.t = "obj" /\ response.keys # {}
    THEN [eligible_trial_ids |-> IF "eligible_trial_ids" \in response.keys
                                 THEN response.e ELSE EmptyList,
          uncertain_trial_ids |-> IF "uncertain_trial_ids" \in response.keys
                                  THEN response.u ELSE EmptyList]
    ELSE [eligible_trial_ids |-> EmptyList, uncertain_trial_ids |-> EmptyList]
\* (the same with the eligible list returned under both names)
EligibilityFilterAgentCopied(response) ==
    IF response.t = "obj" /\ "eligible_trial_ids" \in response.keys
                          /\ "uncertain_trial_ids" \in response.keys
    THEN [eligible_trial_ids |-> response.e, uncertain_trial_ids |-> response.e]
    ELSE [eligible_trial_ids |-> EmptyList, uncertain_trial_ids |-> EmptyList]
EligibilityFilterAgent(response) ==
    IF response.t = "obj" /\ "eligible_trial_ids" \in response.keys
                          /\ "uncertain_trial_ids" \in response.keys
    THEN [eligible_trial_ids |-> response.e, uncertain_trial_ids |-> response.u]
    ELSE [eligible_trial_ids |-> EmptyList, uncertain_trial_ids |-> EmptyList]

\* filtered_trials of _relevance_ranking_agent: the trials shown to the ranker.
\* (the same with no filter: every candidate is shown)
FilteredTrialsAll(trials, trial_ids) == trials
FilteredTrials(trials, trial_ids) ==
    SelectSeq(trials, LAMBDA x : x \in Range(trial_ids.v))

\* _relevance_ranking_agent, after the LLM call.
\* (the same with the fallback giving the shown trials, in candidate order)
RelevanceRankingAgentShown(response, trials, trial_ids) ==
    IF response.t = "obj" /\ response.has
    THEN response.r
    ELSE ListVal(FilteredTrials(trials, trial_ids))
RelevanceRankingAgent(response, trials, trial_ids) ==
    IF response.t = "obj" /\ response.has
    THEN response.r
    ELSE trial_ids

\* ------------------------------------------------------------------- state
VARIABLES
    pc,                          \* position of the current run
    runNo,                       \* runs started so far
    patient_id, transcript_id,   \* arguments of the current run
    outcome,                     \* "none" while running, "returned", or the exception raised
    initial_trials,              \* result of the trial search
    eligible_trial_ids, uncertain_trial_ids,
    ranked_eligible_trial_ids, ranked_uncertain_trial_ids,
    upsertIdx,                   \* position of the loop over initial_trials
    existing_recommendations,    \* "unset", "None" or "dict"
    trials_text,                 \* the trials in the prompt of each ranking call
    clinical_trials,             \* storage: external ids of the rows of clinical_trials
    transcript_recommendations,  \* storage: rows of transcript_recommendations
    resp,                        \* what the collaborators answered in this run
    replay,                      \* this run gets the answers of the previous run again
    recsAtStart,                 \* the storage rows when a replayed run started
    calls,                       \* external calls of this run, in order
    upserted,                    \* external ids handed to upsert_clinical_trial in this run
    written,                     \* arguments of the recommendation writes of this run
    storage_fails,               \* the calls of this storage can raise
    completion,                  \* GeminiAdapter: what generate_content gives
    llm_result,                  \* GeminiAdapter: what call_llm_json returned or raised
    runs,                        \* concurrent runs: the position and the locals of each
    writeOrder,                  \* concurrent runs: who called create/update, in order
    tpc,                         \* TranscriptService: position of the request
    extraction,                  \* what call_llm_json gave for the transcript
    parsed_transcript,           \* the ParsedTranscript made from the LLM's object
    created_transcripts,         \* storage: rows inserted by create_transcript
    transcript_response,         \* the TranscriptResponse of the handler
    transcript_calls,            \* external calls of the request, in order
    transcript_data,             \* the row get_transcript found
    read_transcript,             \* the ParsedTranscript made from that row
    cpc,                         \* ChatService: position of the current call
    asks,                        \* calls of ask_clinical_trial_question so far
    chat_args,                   \* arguments of the current call
    chat_messages,               \* storage: rows of chat_messages, in insertion order
    recent_messages,             \* what get_chat_messages gave
    chat_outcome,                \* "none", "returned", or the exception raised
    chat_calls,                  \* external calls of the current call, in order
    messages_at_start            \* chat_messages when the current call began

vars == <<pc, runNo, patient_id, transcript_id, outcome, initial_trials,
          eligible_trial_ids, uncertain_trial_ids, ranked_eligible_trial_ids,
          ranked_uncertain_trial_ids, upsertIdx, existing_recommendations,
          trials_text, clinical_trials, transcript_recommendations, resp, replay, recsAtStart,
          calls, upserted, written, storage_fails, completion, llm_result,
          runs, writeOrder, tpc, extraction, parsed_transcript, created_transcripts,
          transcript_response, transcript_calls, transcript_data, read_transcript,
          cpc, asks, chat_args, chat_messages, recent_messages, chat_outcome,
          chat_calls, messages_at_start>>

locals == <<initial_trials, eligible_trial_ids, uncertain_trial_ids,
            ranked_eligible_trial_ids, ranked_uncertain_trial_ids, upsertIdx,
            existing_recommendations, trials_text>>
storage == <<clinical_trials, transcript_recommendations>>
args == <<patient_id, transcript_id, runNo, replay, recsAtStart>>
\* What no step of a run changes.
transcript_vars == <<tpc, extraction, parsed_transcript, created_transcripts,
                     transcript_response, transcript_calls, transcript_data,
                     read_transcript>>
chat_vars == <<cpc, asks, chat_args, chat_messages, recent_messages, chat_outcome,
               chat_calls, messages_at_start>>
services == <<transcript_vars, chat_vars>>
env == <<storage_fails, completion, llm_result, runs, writeOrder, services>>
\* No call of call_llm_json under way.
NoCall == [t |-> "none", v |-> <<>>, msg |-> <<>>]
LlmIdle == completion = NoCall /\ llm_result = NoCall
\* Two requests that can be served at the same time: one for the transcript
\* T1, the other for T1 too or for another transcript, T2.
Procs == {"run1", "run2"}
ConcTranscripts == {"T1", "T2"}
RequestedTranscripts(p) == IF p = "run1" THEN {"T1"} ELSE ConcTranscripts
IdleRun == [pc |-> "idle", transcript_id |-> "T1", initial_trials |-> <<>>,
            ranked_eligible_trial_ids |-> <<>>, ranked_uncertain_trial_ids |-> <<>>,
            upsertIdx |-> 1, existing_recommendations |-> "unset"]
ConcIdle == runs = [p \in Procs |-> IdleRun] /\ writeOrder = <<>>

\* The list fields of a ParsedTranscript.  The code treats each of its
\* fifteen list fields in the same way; the model has three of them.
ListFields == {"conditions", "medications", "extraction_notes"}
\* A key that is not in a dict, and a JSON string.
Absent == [t |-> "absent", v |-> <<>>]
StrVal(s) == [t |-> "str", v |-> s]
\* What a dict holds under the key of a list field: nothing, null, a list,
\* or a string.
FieldValues == {Absent, NoneVal, EmptyList, ListVal(<<"hypertension">>),
                StrVal(<<>>), StrVal(<<"none">>)}
\* The dicts: the objects of the LLM and the rows of the transcripts table.
TranscriptObjects == [ListFields -> FieldValues]
NoObject == [k \in ListFields |-> Absent]
\* TranscriptResponse before the handler has returned; None is <<>>.
NoTranscriptResponse == [status |-> "none", error |-> <<>>, transcript_id |-> <<>>]
TranscriptIdle ==
    /\ tpc = "idle"
    /\ extraction = [t |-> "none", fields |-> NoObject]
    /\ parsed_transcript = NoObject
    /\ created_transcripts = <<>>
    /\ transcript_response = NoTranscriptResponse
    /\ transcript_calls = <<>>
    /\ transcript_data = NoObject
    /\ read_transcript = NoObject

\* The chat sessions, and the trials a question can be about; the registry
\* knows the first of them.
Sessions == {"s1", "s2"}
ChatTrials == {"NCT1", "NCT0"}
registry == {"NCT1"}
ChatArgs == [patient_id : PatientIds, session_id : Sessions, clinical_trial_id : ChatTrials]
ChatIdle ==
    /\ cpc = "idle"
    /\ asks = 0
    /\ chat_args = [patient_id |-> "P1", session_id |-> "s1", clinical_trial_id |-> "NCT1"]
    /\ chat_messages = <<>>
    /\ recent_messages = <<>>
    /\ chat_outcome = "none"
    /\ chat_calls = <<>>
    /\ messages_at_start = <<>>
ServicesIdle == TranscriptIdle /\ ChatIdle

\* No ranking prompt built yet.
NoPrompt == [eligible |-> <<>>, uncertain |-> <<>>]
NoResp == [search |-> Unset, cls |-> Unset, rankE |-> Unset, rankU |-> Unset]

\* No call of create_recommended_trials made yet.
NoRun ==
    /\ pc = "idle"
    /\ runNo = 0
    /\ patient_id = "P1"
    /\ transcript_id = "T1"
    /\ outcome = "none"
    /\ initial_trials = <<>>
    /\ eligible_trial_ids = EmptyList
    /\ uncertain_trial_ids = EmptyList
    /\ ranked_eligible_trial_ids = EmptyList
    /\ ranked_uncertain_trial_ids = EmptyList
    /\ upsertIdx = 1
    /\ existing_recommendations = "unset"
    /\ trials_text = NoPrompt
    /\ resp = NoResp
    /\ replay = FALSE
    /\ recsAtStart = <<>>
    /\ calls = <<>>
    /\ upserted = <<>>
    /\ written = <<>>

\* No call made yet, the tables empty.
Idle == NoRun /\ clinical_trials = {} /\ transcript_recommendations = <<>>

\* The service on a storage whose calls can raise.
Init == Idle /\ LlmIdle /\ ConcIdle /\ ServicesIdle /\ storage_fails = TRUE

ResetLocals ==
    /\ initial_trials' = <<>>
    /\ eligible_trial_ids' = EmptyList
    /\ uncertain_trial_ids' = EmptyList
    /\ ranked_eligible_trial_ids' = EmptyList
    /\ ranked_uncertain_trial_ids' = EmptyList
    /\ upsertIdx' = 1
    /\ existing_recommendations' = "unset"
    /\ trials_text' = NoPrompt
    /\ calls' = <<>>
    /\ upserted' = <<>>
    /\ written' = <<>>

\* The answer of a collaborator: free in a fresh run, the recorded one in a replay.
Answers(field, domain) == IF resp[field] = Unset THEN domain ELSE {resp[field]}


\* Results of find_recommended_clinical_trials: a list of trials, or an exception.
SearchResponses == {ListVal(s) : s \in CandidateLists} \cup {[t |-> "raise", v |-> <<>>]}

\* ----------------------------------------------------------------- storage
\* The id column of a clinical_trials row; upsert on external_id keeps it.
Uuid(external_id) == <<"uuid", external_id>>

\* SupabaseAdapter._get_trial_uuids_from_external_ids: the possible results.
\* The select has no ORDER BY, so the rows come in any order; a failing query
\* is logged and gives [].
GetTrialUuidsFromExternalIds(external_ids) ==
    IF Len(external_ids) = 0 THEN {<<>>}
    ELSE {[i \in 1..Len(p) |-> Uuid(p[i])] :
             p \in Perms(clinical_trials \cap Range(external_ids))}
         \cup (IF storage_fails THEN {<<>>} ELSE {})

RowsOf(tid) == {i \in 1..Len(transcript_recommendations) :
                   transcript_recommendations[i].transcript_id = tid}

\* SupabaseAdapter.create_transcript_recommendations, the call not raising.
CreateTranscriptRecommendations(tid, eligible, uncertain) ==
    \E eu \in GetTrialUuidsFromExternalIds(eligible) :
    \E uu \in GetTrialUuidsFromExternalIds(uncertain) :
        transcript_recommendations' = Append(transcript_recommendations,
            [transcript_id |-> tid, eligible_trials |-> eu, uncertain_trials |-> uu])

\* SupabaseAdapter.update_transcript_recommendations, the call not raising.
\* (the same with the eligible column alone written)
UpdateEligibleTrialsOnly(tid, eligible, uncertain) ==
    /\ RowsOf(tid) # {}
    /\ \E eu \in GetTrialUuidsFromExternalIds(eligible) :
           transcript_recommendations' =
               [i \in 1..Len(transcript_recommendations) |->
                   IF i \in RowsOf(tid)
                   THEN [transcript_recommendations[i] EXCEPT !.eligible_trials = eu]
                   ELSE transcript_recommendations[i]]
UpdateTranscriptRecommendations(tid, eligible, uncertain) ==
    /\ RowsOf(tid) # {}
    /\ \E eu \in GetTrialUuidsFromExternalIds(eligible) :
       \E uu \in GetTrialUuidsFromExternalIds(uncertain) :
           transcript_recommendations' =
               [i \in 1..Len(transcript_recommendations) |->
                   IF i \in RowsOf(tid)
                   THEN [transcript_id |-> tid, eligible_trials |-> eu, uncertain_trials |-> uu]
                   ELSE transcript_recommendations[i]]

\* SupabaseAdapter.get_transcript_recommendations, the call not raising.
GetTranscriptRecommendations(tid) == IF RowsOf(tid) # {} THEN "dict" ELSE "None"

\* SupabaseAdapter._get_external_ids_from_uuids: the possible results.  As in
\* the lookup the other way, the rows come in any order, one for each id that
\* has a row, and a failing query gives [].
GetExternalIdsFromUuids(uuids) ==
    IF Len(uuids) = 0 THEN {<<>>}
    ELSE Perms({x \in clinical_trials : Uuid(x) \in Range(uuids)})
         \cup (IF storage_fails THEN {<<>>} ELSE {})

\* SupabaseAdapter.get_transcript_recommendations, the call not raising: the
\* dicts it can return for a transcript that has a record.
RecommendationsRead(tid) ==
    LET recommendations_data ==
            transcript_recommendations[CHOOSE i \in RowsOf(tid) : \A j \in RowsOf(tid) : i <= j]
    IN  {[eligible_trial_ids |-> e, uncertain_trial_ids |-> u] :
            e \in GetExternalIdsFromUuids(recommendations_data.eligible_trials),
            u \in GetExternalIdsFromUuids(recommendations_data.uncertain_trials)}

\* ------------------------------------------------------------------- steps
\* A caller invokes create_recommended_trials(patient_id, transcript_id).
Start ==
    /\ pc \in {"idle", "done"}
    /\ runNo < MaxRuns
    /\ runNo' = runNo + 1
    /\ pc' = "get_patient"
    /\ outcome' = "none"
    /\ ResetLocals
    /\ \/ /\ patient_id' \in PatientIds
          /\ transcript_id' \in TranscriptIds
          /\ replay' = FALSE
          /\ resp' = NoResp
          /\ recsAtStart' = <<>>
       \/ /\ pc = "done"
          /\ outcome = "returned"
          /\ replay' = TRUE
          /\ recsAtStart' = transcript_recommendations
          /\ UNCHANGED <<patient_id, transcript_id, resp>>
    /\ UNCHANGED <<env, storage>>

\* (the same with a missing patient not ending the run)
GetPatientLenient ==
    /\ pc = "get_patient"
    /\ calls' = Append(calls, "get_patient")
    /\ pc' = "get_transcript"
    /\ UNCHANGED <<env, args, outcome, locals, storage, resp, upserted, written>>

\* Line 36: patient = self.db_adapter.get_patient(patient_id)
GetPatient ==
    /\ pc = "get_patient"
    /\ calls' = Append(calls, "get_patient")
    /\ IF patient_id \in patients
       THEN pc' = "get_transcript" /\ UNCHANGED outcome
       ELSE pc' = "done" /\ outcome' = "PatientNotFoundError"
    /\ UNCHANGED <<env, args, locals, storage, resp, upserted, written>>

\* Line 37: parsed_transcript = self.db_adapter.get_transcript(transcript_id)
GetTranscript ==
    /\ pc = "get_transcript"
    /\ calls' = Append(calls, "get_transcript")
    /\ IF transcript_id \in transcripts
       THEN pc' = "search" /\ UNCHANGED outcome
       ELSE pc' = "done" /\ outcome' = "TranscriptNotFoundError"
    /\ UNCHANGED <<env, args, locals, storage, resp, upserted, written>>

\* (the same with an exception of the search caught and taken for no candidates)
SearchCaught ==
    /\ pc = "search"
    /\ calls' = Append(calls, "search")
    /\ \E a \in Answers("search", SearchResponses) :
        /\ resp' = [resp EXCEPT !.search = a]
        /\ initial_trials' = a.v
        /\ pc' = IF Len(a.v) = 0 THEN "empty_get" ELSE "classify"
        /\ UNCHANGED outcome
    /\ UNCHANGED <<env, args, eligible_trial_ids, uncertain_trial_ids,
                   ranked_eligible_trial_ids, ranked_uncertain_trial_ids, upsertIdx,
                   existing_recommendations, trials_text, storage, upserted, written>>

\* (the same with the search made again for as long as it raises)
SearchRetried ==
    /\ pc = "search"
    /\ \E a \in Answers("search", SearchResponses) :
        /\ resp' = [resp EXCEPT !.search = a]
        /\ IF a.t = "raise"
           THEN pc' = "search" /\ UNCHANGED <<outcome, initial_trials, calls>>
           ELSE /\ initial_trials' = a.v
                /\ calls' = Append(calls, "search")
                /\ pc' = IF Len(a.v) = 0 THEN "empty_get" ELSE "classify"
                /\ UNCHANGED outcome
    /\ UNCHANGED <<env, args, eligible_trial_ids, uncertain_trial_ids,
                   ranked_eligible_trial_ids, ranked_uncertain_trial_ids, upsertIdx,
                   existing_recommendations, trials_text, storage, upserted, written>>

\* Lines 41-44: the trial search and the test for an empty result.
Search ==
    /\ pc = "search"
    /\ calls' = Append(calls, "search")
    /\ \E a \in Answers("search", SearchResponses) :
        /\ resp' = [resp EXCEPT !.search = a]
        /\ IF a.t = "raise"
           THEN pc' = "done" /\ outcome' = "SearchError" /\ UNCHANGED initial_trials
           ELSE /\ initial_trials' = a.v
                /\ pc' = IF Len(a.v) = 0 THEN "empty_get" ELSE "classify"
                /\ UNCHANGED outcome
    /\ UNCHANGED <<env, args, eligible_trial_ids, uncertain_trial_ids,
                   ranked_eligible_trial_ids, ranked_uncertain_trial_ids, upsertIdx,
                   existing_recommendations, trials_text, storage, upserted, written>>

\* Lines 47-48 and 53-55: read the existing record; an exception is logged and
\* the run returns.
EmptyGetRecommendations ==
    /\ pc = "empty_get"
    /\ calls' = Append(calls, "get_recs")
    /\ \/ /\ existing_recommendations' = GetTranscriptRecommendations(transcript_id)
          /\ pc' = "empty_write"
          /\ UNCHANGED outcome
       \/ /\ storage_fails
          /\ pc' = "done"
          /\ outcome' = "returned"
          /\ UNCHANGED existing_recommendations
    /\ UNCHANGED <<env, args, initial_trials, eligible_trial_ids, uncertain_trial_ids,
                   ranked_eligible_trial_ids, ranked_uncertain_trial_ids, upsertIdx,
                   trials_text, storage, resp, upserted, written>>

\* The create-or-update of lines 49-52 and 91-94 with its except clause: an
\* exception of the adapter is logged and the run returns.
StoreRecommendations(eligible, uncertain) ==
    /\ outcome' = "returned"
    /\ pc' = "done"
    /\ calls' = Append(calls, IF existing_recommendations = "dict"
                              THEN "update_recs" ELSE "create_recs")
    /\ \/ /\ IF existing_recommendations = "dict"
             THEN UpdateTranscriptRecommendations(transcript_id, eligible.v, uncertain.v)
             ELSE CreateTranscriptRecommendations(transcript_id, eligible.v, uncertain.v)
          /\ written' = Append(written,
                 [eligible |-> eligible, uncertain |-> uncertain, ok |-> TRUE])
       \/ /\ storage_fails
          /\ UNCHANGED transcript_recommendations
          /\ written' = Append(written,
                 [eligible |-> eligible, uncertain |-> uncertain, ok |-> FALSE])
    /\ UNCHANGED <<env, args, locals, clinical_trials, resp, upserted>>

\* Lines 49-55: store empty recommendations and return.
EmptyStoreRecommendations ==
    /\ pc = "empty_write"
    /\ StoreRecommendations(EmptyList, EmptyList)


\* Lines 66 and 73: the position after the classifier, by the two `if` tests.
AfterClassify(eligible, uncertain) ==
    IF Truthy(eligible) THEN "rank_eligible"
    ELSE IF Truthy(uncertain) THEN "rank_uncertain" ELSE "upsert"

\* Lines 59-62: the eligibility filter agent; the len() calls of line 62 raise
\* TypeError on a value that is not a list.
Classify ==
    /\ pc = "classify"
    /\ calls' = Append(calls, "llm_classify")
    /\ \E a \in Answers("cls", ClsResponses) :
        LET eligibility_result == EligibilityFilterAgent(a)
            e == eligibility_result.eligible_trial_ids
            u == eligibility_result.uncertain_trial_ids
        IN  /\ resp' = [resp EXCEPT !.cls = a]
            /\ eligible_trial_ids' = e
            /\ uncertain_trial_ids' = u
            /\ IF LenRaises(e) \/ LenRaises(u)
               THEN pc' = "done" /\ outcome' = "TypeError"
               ELSE pc' = AfterClassify(e, u) /\ UNCHANGED outcome
    /\ UNCHANGED <<env, args, initial_trials, ranked_eligible_trial_ids,
                   ranked_uncertain_trial_ids, upsertIdx, existing_recommendations,
                   trials_text, storage, upserted, written>>

\* Lines 66-69: rank the eligible trials; len() of line 69 raises on a non-list.
RankEligible ==
    /\ pc = "rank_eligible"
    /\ calls' = Append(calls, "llm_rank_eligible")
    /\ \E a \in Answers("rankE", RankResponses) :
        LET ranked == RelevanceRankingAgent(a, initial_trials, eligible_trial_ids)
        IN  /\ trials_text' = [trials_text EXCEPT
                   !.eligible = FilteredTrials(initial_trials, eligible_trial_ids)]
            /\ resp' = [resp EXCEPT !.rankE = a]
            /\ ranked_eligible_trial_ids' = ranked
            /\ IF LenRaises(ranked)
               THEN pc' = "done" /\ outcome' = "TypeError"
               ELSE /\ pc' = IF Truthy(uncertain_trial_ids) THEN "rank_uncertain" ELSE "upsert"
                    /\ UNCHANGED outcome
    /\ UNCHANGED <<env, args, initial_trials, eligible_trial_ids, uncertain_trial_ids,
                   ranked_uncertain_trial_ids, upsertIdx, existing_recommendations,
                   storage, upserted, written>>

\* Lines 73-76: rank the uncertain trials; len() of line 76 raises on a non-list.
RankUncertain ==
    /\ pc = "rank_uncertain"
    /\ calls' = Append(calls, "llm_rank_uncertain")
    /\ \E a \in Answers("rankU", RankResponses) :
        LET ranked == RelevanceRankingAgent(a, initial_trials, uncertain_trial_ids)
        IN  /\ trials_text' = [trials_text EXCEPT
                   !.uncertain = FilteredTrials(initial_trials, uncertain_trial_ids)]
            /\ resp' = [resp EXCEPT !.rankU = a]
            /\ ranked_uncertain_trial_ids' = ranked
            /\ IF LenRaises(ranked)
               THEN pc' = "done" /\ outcome' = "TypeError"
               ELSE pc' = "upsert" /\ UNCHANGED outcome
    /\ UNCHANGED <<env, args, initial_trials, eligible_trial_ids, uncertain_trial_ids,
                   ranked_eligible_trial_ids, upsertIdx, existing_recommendations,
                   storage, upserted, written>>

\* Lines 80-84: one iteration of the loop over initial_trials; an exception of
\* upsert_clinical_trial is logged and the loop goes on.
\* (the same with the loop left after its first iteration)
UpsertTrialFirstOnly ==
    /\ pc = "upsert"
    /\ upsertIdx <= Len(initial_trials)
    /\ calls' = Append(calls, "upsert")
    /\ upserted' = Append(upserted, initial_trials[upsertIdx])
    /\ \/ clinical_trials' = clinical_trials \cup {initial_trials[upsertIdx]}
       \/ storage_fails /\ UNCHANGED clinical_trials
    /\ upsertIdx' = upsertIdx + 1
    /\ pc' = "get_recs"
    /\ UNCHANGED <<env, args, outcome, initial_trials, eligible_trial_ids, uncertain_trial_ids,
                   ranked_eligible_trial_ids, ranked_uncertain_trial_ids,
                   existing_recommendations, trials_text, transcript_recommendations,
                   resp, written>>
UpsertTrial ==
    /\ pc = "upsert"
    /\ upsertIdx <= Len(initial_trials)
    /\ calls' = Append(calls, "upsert")
    /\ upserted' = Append(upserted, initial_trials[upsertIdx])
    /\ \/ clinical_trials' = clinical_trials \cup {initial_trials[upsertIdx]}
       \/ storage_fails /\ UNCHANGED clinical_trials
    /\ upsertIdx' = upsertIdx + 1
    /\ pc' = IF upsertIdx = Len(initial_trials) THEN "get_recs" ELSE "upsert"
    /\ UNCHANGED <<env, args, outcome, initial_trials, eligible_trial_ids, uncertain_trial_ids,
                   ranked_eligible_trial_ids, ranked_uncertain_trial_ids,
                   existing_recommendations, trials_text, transcript_recommendations,
                   resp, written>>

\* Lines 88-90 and 95-96: read the existing record; an exception is logged and
\* the run returns.
GetRecommendations ==
    /\ pc = "get_recs"
    /\ calls' = Append(calls, "get_recs")
    /\ \/ /\ existing_recommendations' = GetTranscriptRecommendations(transcript_id)
          /\ pc' = "write_recs"
          /\ UNCHANGED outcome
       \/ /\ storage_fails
          /\ pc' = "done"
          /\ outcome' = "returned"
          /\ UNCHANGED existing_recommendations
    /\ UNCHANGED <<env, args, initial_trials, eligible_trial_ids, uncertain_trial_ids,
                   ranked_eligible_trial_ids, ranked_uncertain_trial_ids, upsertIdx,
                   trials_text, storage, resp, upserted, written>>

\* Lines 91-98: store the ranked lists and return.
StoreRankedRecommendations ==
    /\ pc = "write_recs"
    /\ StoreRecommendations(ranked_eligible_trial_ids, ranked_uncertain_trial_ids)

Next ==
    \/ Start
    \/ GetPatient
    \/ GetTranscript
    \/ Search
    \/ EmptyGetRecommendations
    \/ EmptyStoreRecommendations
    \/ Classify
    \/ RankEligible
    \/ RankUncertain
    \/ UpsertTrial
    \/ GetRecommendations
    \/ StoreRankedRecommendations

Spec == Init /\ [][Next]_vars

\* A step of the run under way: the external call it waits for returns or
\* raises, and the code goes on to its next call or ends.
Step ==
    \/ GetPatient
    \/ GetTranscript
    \/ Search
    \/ EmptyGetRecommendations
    \/ EmptyStoreRecommendations
    \/ Classify
    \/ RankEligible
    \/ RankUncertain
    \/ UpsertTrial
    \/ GetRecommendations
    \/ StoreRankedRecommendations

\* What earlier runs can have left in the tables: any rows of clinical_trials,
\* and no record of T1 or the record a run without candidates stores.
StoredTrials == SUBSET Ids
StoredRecords ==
    {<<>>, <<[transcript_id |-> "T1", eligible_trials |-> <<>>, uncertain_trials |-> <<>>]>>}
InitStored ==
    /\ NoRun /\ LlmIdle /\ ConcIdle /\ ServicesIdle /\ storage_fails = TRUE
    /\ clinical_trials \in StoredTrials
    /\ transcript_recommendations \in StoredRecords

\* One call of create_recommended_trials.
NextRun ==
    \/ runNo = 0 /\ Start
    \/ Step

\* One run, on any tables.
SpecRun == InitStored /\ [][NextRun]_vars

\* One run, on any tables, when no external call hangs: the run always takes
\* its next step in the end.  Nothing obliges the caller to start it.
SpecFair == InitStored /\ [][NextRun]_vars /\ WF_vars(Step)

\* The service on a storage none of whose calls raises.
InitReliable == Idle /\ LlmIdle /\ ConcIdle /\ ServicesIdle /\ storage_fails = FALSE
SpecReliable == InitReliable /\ [][Next]_vars

TypeOK ==
    /\ pc \in {"idle", "get_patient", "get_transcript", "search", "empty_get", "empty_write",
               "classify", "rank_eligible", "rank_uncertain", "upsert", "get_recs",
               "write_recs", "done"}
    /\ runNo \in 0..MaxRuns
    /\ clinical_trials \subseteq Ids
    /\ Len(transcript_recommendations) <= 1


\* ------------------------------------------- GeminiAdapter.call_llm_json
\* Texts are sequences of characters.
\* The backquote character, U+0060.
Backquote == "U+0060"
Fence == <<Backquote, Backquote, Backquote>>
JsonFence == Fence \o <<"j", "s", "o", "n">>
Quote == "\""
Whitespace == {" "}
Pieces == {JsonFence, Fence, <<" ">>, <<"{", "}">>, <<"[">>, <<"]">>, <<Quote>>}
RECURSIVE Concat(_)
Concat(ps) == IF ps = <<>> THEN <<>> ELSE Head(ps) \o Concat(Tail(ps))
Texts == {Concat(ps) : ps \in UNION {[1..n -> Pieces] : n \in 0..MaxPieces}}
\* generate_content gives a text, or raises.
Completions == {[t |-> "text", v |-> x, msg |-> <<>>] : x \in Texts}
                   \cup {[t |-> "raise", v |-> <<>>, msg |-> <<"API Error">>]}

\* str.strip(), str.startswith(), str.endswith()
RECURSIVE LStrip(_)
LStrip(x) == IF x # <<>> /\ Head(x) \in Whitespace THEN LStrip(Tail(x)) ELSE x
RECURSIVE RStrip(_)
RStrip(x) == IF x # <<>> /\ x[Len(x)] \in Whitespace
             THEN RStrip(SubSeq(x, 1, Len(x) - 1)) ELSE x
Strip(x) == RStrip(LStrip(x))
StartsWith(x, prefix) == Len(x) >= Len(prefix) /\ SubSeq(x, 1, Len(prefix)) = prefix
EndsWith(x, suffix) ==
    Len(x) >= Len(suffix) /\ SubSeq(x, Len(x) - Len(suffix) + 1, Len(x)) = suffix

\* Lines 180-186: the text handed to json.loads.
\* (the same with the closing fence left in place)
CleanedTextOpenOnly(text) ==
    LET stripped == Strip(text)
    IN  Strip(IF StartsWith(stripped, JsonFence)
              THEN SubSeq(stripped, 8, Len(stripped)) ELSE stripped)
CleanedText(text) ==
    LET stripped == Strip(text)
        opened == IF StartsWith(stripped, JsonFence)
                  THEN SubSeq(stripped, 8, Len(stripped)) ELSE stripped
        closed == IF EndsWith(opened, Fence)
                  THEN SubSeq(opened, 1, Len(opened) - 3) ELSE opened
    IN  Strip(closed)

\* json.loads on the grammar  value ::= "chars" | {} | [] | [value],
\* blanks allowed around every token.  The parsed value is given by the text
\* without the blanks that are outside strings.
RECURSIVE Squeeze(_, _)
Squeeze(x, inString) ==
    IF x = <<>> THEN <<>>
    ELSE IF Head(x) = Quote THEN <<Quote>> \o Squeeze(Tail(x), ~inString)
    ELSE IF Head(x) \in Whitespace /\ ~inString THEN Squeeze(Tail(x), inString)
    ELSE <<Head(x)>> \o Squeeze(Tail(x), inString)
RECURSIVE IsValue(_)
IsValue(x) ==
    \/ x = <<"{", "}">>
    \/ /\ Len(x) >= 2 /\ x[1] = Quote /\ x[Len(x)] = Quote
       /\ \A i \in 2..(Len(x) - 1) : x[i] # Quote
    \/ /\ Len(x) >= 2 /\ x[1] = "[" /\ x[Len(x)] = "]"
       /\ Len(x) = 2 \/ IsValue(SubSeq(x, 2, Len(x) - 1))
JsonLoads(text) ==
    IF IsValue(Squeeze(text, FALSE))
    THEN [t |-> "value", v |-> Squeeze(text, FALSE), msg |-> <<>>]
    ELSE [t |-> "JSONDecodeError", v |-> <<>>, msg |-> <<"Expecting value">>]

\* call_llm_json, lines 115-201: json.JSONDecodeError becomes a RuntimeError
\* (line 193) inside the outer try, whose handler (lines 195-201) wraps every
\* exception, that one included, in a RuntimeError again.
\* (the same with the JSON error of line 193 leaving the function as raised)
call_llm_json_unwrapped(response) ==
    LET parsed == JsonLoads(CleanedText(response.v))
    IN  IF response.t = "raise"
        THEN [t |-> "RuntimeError", v |-> <<>>,
              msg |-> <<"Failed to call Gemini LLM for JSON: ">> \o response.msg]
        ELSE IF parsed.t = "JSONDecodeError"
        THEN [t |-> "RuntimeError", v |-> <<>>,
              msg |-> <<"LLM response is not valid JSON: ">> \o parsed.msg]
        ELSE parsed
call_llm_json(response) ==
    LET parsed == JsonLoads(CleanedText(response.v))
        inner == IF response.t = "raise"
                 THEN [t |-> "Exception", v |-> <<>>, msg |-> response.msg]
                 ELSE IF parsed.t = "JSONDecodeError"
                 THEN [t |-> "RuntimeError", v |-> <<>>,
                       msg |-> <<"LLM response is not valid JSON: ">> \o parsed.msg]
                 ELSE parsed
    IN  IF inner.t = "value" THEN inner
        ELSE [t |-> "RuntimeError", v |-> <<>>,
              msg |-> <<"Failed to call Gemini LLM for JSON: ">> \o inner.msg]

\* One call of call_llm_json on the completion the model gave.
CallLlmJson ==
    /\ llm_result = NoCall
    /\ llm_result' = call_llm_json(completion)
    /\ UNCHANGED <<pc, runNo, patient_id, transcript_id, outcome, locals, storage, resp,
                   replay, recsAtStart, calls, upserted, written, storage_fails,
                   completion, runs, writeOrder, services>>

InitLlm ==
    /\ Idle /\ ConcIdle /\ ServicesIdle /\ storage_fails = TRUE
    /\ completion \in Completions /\ llm_result = NoCall
SpecLlm == InitLlm /\ [][CallLlmJson]_vars


\* ------------------------------------------------------- concurrent runs
\* Two calls of create_recommended_trials served at the same time (by two
\* server processes on the one database); they take their steps on storage
\* in any order.  The sequential run's own variables stay idle.
sequential == <<pc, runNo, patient_id, transcript_id, outcome, locals, resp, replay,
                recsAtStart, calls, upserted, written>>

\* Lines 36-76 of run p: the lookups, the search and the agents, none of
\* which writes to storage, have given the candidates and the ranked lists.
ConcStart(p) ==
    /\ runs[p].pc = "idle"
    /\ \E tid \in RequestedTranscripts(p) :
       \E trials \in CandidateLists, e \in IdLists, u \in IdLists :
        /\ trials = <<>> => e = <<>> /\ u = <<>>
        /\ runs' = [runs EXCEPT ![p] =
              [@ EXCEPT !.pc = IF trials = <<>> THEN "get_recs" ELSE "upsert",
                        !.transcript_id = tid,
                        !.initial_trials = trials,
                        !.ranked_eligible_trial_ids = e,
                        !.ranked_uncertain_trial_ids = u]]
    /\ UNCHANGED <<sequential, storage, storage_fails, completion, llm_result, writeOrder,
                   services>>

\* Lines 80-84 of run p.
ConcUpsertTrial(p) ==
    /\ runs[p].pc = "upsert"
    /\ \/ clinical_trials' =
             clinical_trials \cup {runs[p].initial_trials[runs[p].upsertIdx]}
       \/ storage_fails /\ UNCHANGED clinical_trials
    /\ runs' = [runs EXCEPT ![p] =
          [@ EXCEPT !.upsertIdx = @ + 1,
                    !.pc = IF runs[p].upsertIdx = Len(runs[p].initial_trials)
                           THEN "get_recs" ELSE "upsert"]]
    /\ UNCHANGED <<sequential, transcript_recommendations, storage_fails, completion,
                   llm_result, writeOrder, services>>

\* Lines 47 and 89 of run p.
ConcGetRecommendations(p) ==
    /\ runs[p].pc = "get_recs"
    /\ \/ runs' = [runs EXCEPT ![p] =
             [@ EXCEPT !.existing_recommendations =
                           GetTranscriptRecommendations(runs[p].transcript_id),
                       !.pc = "write_recs"]]
       \/ storage_fails /\ runs' = [runs EXCEPT ![p] = [@ EXCEPT !.pc = "done"]]
    /\ UNCHANGED <<sequential, storage, storage_fails, completion, llm_result, writeOrder,
                   services>>

\* (the same with the record of T1 written whatever the transcript of the run)
ConcStoreRecommendationsOfT1(p) ==
    /\ runs[p].pc = "write_recs"
    /\ writeOrder' = Append(writeOrder, p)
    /\ runs' = [runs EXCEPT ![p] = [@ EXCEPT !.pc = "done"]]
    /\ \/ IF runs[p].existing_recommendations = "dict"
          THEN UpdateTranscriptRecommendations("T1", runs[p].ranked_eligible_trial_ids,
                                               runs[p].ranked_uncertain_trial_ids)
          ELSE CreateTranscriptRecommendations("T1", runs[p].ranked_eligible_trial_ids,
                                               runs[p].ranked_uncertain_trial_ids)
       \/ /\ \/ storage_fails
             \/ runs[p].existing_recommendations # "dict" /\ RowsOf("T1") # {}
          /\ UNCHANGED transcript_recommendations
    /\ UNCHANGED <<sequential, clinical_trials, storage_fails, completion, llm_result,
                   services>>

\* Lines 48-55 and 90-96 of run p.  The insert of a second row for the
\* transcript is accepted or refused by the database (the table's keys are
\* not in the source); a refusal raises and is logged like any storage error.
ConcStoreRecommendations(p) ==
    /\ runs[p].pc = "write_recs"
    /\ writeOrder' = Append(writeOrder, p)
    /\ runs' = [runs EXCEPT ![p] = [@ EXCEPT !.pc = "done"]]
    /\ \/ IF runs[p].existing_recommendations = "dict"
          THEN UpdateTranscriptRecommendations(runs[p].transcript_id,
                                               runs[p].ranked_eligible_trial_ids,
                                               runs[p].ranked_uncertain_trial_ids)
          ELSE CreateTranscriptRecommendations(runs[p].transcript_id,
                                               runs[p].ranked_eligible_trial_ids,
                                               runs[p].ranked_uncertain_trial_ids)
       \/ /\ \/ storage_fails
             \/ runs[p].existing_recommendations # "dict" /\ RowsOf(runs[p].transcript_id) # {}
          /\ UNCHANGED transcript_recommendations
    /\ UNCHANGED <<sequential, clinical_trials, storage_fails, completion, llm_result,
                   services>>

NextConcurrent ==
    \E p \in Procs :
        \/ ConcStart(p)
        \/ ConcUpsertTrial(p)
        \/ ConcGetRecommendations(p)
        \/ ConcStoreRecommendations(p)

InitConcurrent == Idle /\ LlmIdle /\ ConcIdle /\ ServicesIdle /\ storage_fails \in BOOLEAN
SpecConcurrent == InitConcurrent /\ [][NextConcurrent]_vars


\* ------------------------------------------------- transcript processing
\* What the pipeline, call_llm_json and the concurrent runs hold; the steps of
\* the other services leave it alone.
pipeline == <<sequential, storage, storage_fails, completion, llm_result, runs, writeOrder>>

\* dict.get(key, default)
DictGet(d, key, default) == IF d[key] = Absent THEN default ELSE d[key]
\* `x or []`: the empty list for None and for every other falsy value.
OrEmptyList(x) == IF x.t \in {"absent", "null"} \/ Len(x.v) = 0 THEN EmptyList ELSE x

\* ParsedTranscript.__init__ on the keyword arguments kw; an argument that is
\* not given is None.
\* (the same with the arguments assigned as they are)
ParsedTranscriptInitAsGiven(kw) ==
    [k \in ListFields |-> IF kw[k] = Absent THEN NoneVal ELSE kw[k]]
ParsedTranscriptInit(kw) == [k \in ListFields |-> OrEmptyList(kw[k])]

\* TranscriptService._parse_llm_response on a dict.
ParseLlmResponse(response) ==
    ParsedTranscriptInit(
        [k \in ListFields |->
            LET x == DictGet(response, k, EmptyList)
            IN  IF x = NoneVal THEN EmptyList ELSE x])

\* SupabaseAdapter._row_to_parsed_transcript.
RowToParsedTranscript(row) ==
    ParsedTranscriptInit([k \in ListFields |-> DictGet(row, k, EmptyList)])

\* Outcomes of call_llm_json for the extraction: the call raises, the parsed
\* JSON is no object, or it is an object.
ExtractionResponses ==
    {[t |-> "raise", fields |-> NoObject], [t |-> "nondict", fields |-> NoObject]}
    \cup {[t |-> "dict", fields |-> f] : f \in TranscriptObjects}

\* The id of the n-th row of the transcripts table.
TranscriptId(n) == <<"transcript", n>>
\* TranscriptResponse(status="error", error=str(e), transcript_id=None)
ErrorResponse(e) == [status |-> "error", error |-> <<e>>, transcript_id |-> <<>>]

\* (the same with the record created before the LLM is called)
AnalyzeTranscriptAfterCreate ==
    /\ tpc = "idle"
    /\ transcript_calls' = <<"create_transcript", "call_llm_json">>
    /\ created_transcripts' = Append(created_transcripts, NoObject)
    /\ \E r \in ExtractionResponses :
        /\ extraction' = r
        /\ tpc' = "done"
        /\ IF r.t = "dict"
           THEN /\ parsed_transcript' = ParseLlmResponse(r.fields)
                /\ transcript_response' =
                      [status |-> "success", error |-> <<>>, transcript_id |-> TranscriptId(1)]
           ELSE /\ transcript_response' = ErrorResponse("LLM API error")
                /\ UNCHANGED parsed_transcript
    /\ UNCHANGED <<pipeline, chat_vars, transcript_data, read_transcript>>

\* TranscriptHandler.process_transcript up to the return of the analysis:
\* process_raw_transcript calls _analyze_transcript_with_llm (line 36), which
\* calls call_llm_json (74-78) and _parse_llm_response (81).  An exception
\* leaves process_raw_transcript (50-52) and the handler returns the error
\* response (handlers/transcript.py 30-32).
AnalyzeTranscriptWithLlm ==
    /\ tpc = "idle"
    /\ transcript_calls' = Append(transcript_calls, "call_llm_json")
    /\ \E r \in ExtractionResponses :
        /\ extraction' = r
        /\ CASE r.t = "raise" ->
                  /\ tpc' = "done"
                  /\ transcript_response' = ErrorResponse("LLM API error")
                  /\ UNCHANGED parsed_transcript
             [] r.t = "nondict" ->
                  /\ tpc' = "done"
                  /\ transcript_response' = ErrorResponse("object has no attribute 'get'")
                  /\ UNCHANGED parsed_transcript
             [] r.t = "dict" ->
                  /\ tpc' = "create"
                  /\ parsed_transcript' = ParseLlmResponse(r.fields)
                  /\ UNCHANGED transcript_response
    /\ UNCHANGED <<pipeline, chat_vars, created_transcripts, transcript_data, read_transcript>>

\* Lines 41-48 and the return of the handler: create_transcript inserts the
\* row and gives its id, or raises.
CreateTranscript ==
    /\ tpc = "create"
    /\ transcript_calls' = Append(transcript_calls, "create_transcript")
    /\ tpc' = "done"
    /\ \/ /\ created_transcripts' = Append(created_transcripts, parsed_transcript)
          /\ transcript_response' =
                [status |-> "success", error |-> <<>>,
                 transcript_id |-> TranscriptId(Len(created_transcripts) + 1)]
       \/ /\ storage_fails
          /\ UNCHANGED created_transcripts
          /\ transcript_response' = ErrorResponse("Failed to create transcript")
    /\ UNCHANGED <<pipeline, chat_vars, extraction, parsed_transcript, transcript_data,
                   read_transcript>>

\* SupabaseAdapter.get_transcript on a transcript that has a row; the row is
\* any the table can hold, written by this service or by another client.
GetTranscriptRow ==
    /\ tpc = "idle"
    /\ transcript_calls' = Append(transcript_calls, "get_transcript")
    /\ tpc' = "read"
    /\ \E row \in TranscriptObjects :
        /\ transcript_data' = row
        /\ read_transcript' = RowToParsedTranscript(row)
    /\ UNCHANGED <<pipeline, chat_vars, extraction, parsed_transcript, created_transcripts,
                   transcript_response>>

NextTranscript ==
    \/ AnalyzeTranscriptWithLlm
    \/ CreateTranscript
    \/ GetTranscriptRow

SpecTranscript == Init /\ [][NextTranscript]_vars


\* ------------------------------------------------------------------ chat
\* The rows of chat_messages of a session, in insertion order.
SessionMessages(rows, sid) == SelectSeq(rows, LAMBDA m : m.session_id = sid)
\* The last n members of a list.
LastN(s, n) == IF Len(s) <= n THEN s ELSE SubSeq(s, Len(s) - n + 1, Len(s))
\* The row create_chat_message inserts; ask numbers the call that wrote it.
ChatMessage(sender) == [session_id |-> chat_args.session_id, sender |-> sender, ask |-> asks]
\* An exception leaves ask_clinical_trial_question, which catches none.
ChatRaise(e) == cpc' = "done" /\ chat_outcome' = e

\* A caller invokes ask_clinical_trial_question.
Ask ==
    /\ cpc \in {"idle", "done"}
    /\ asks < MaxAsks
    /\ asks' = asks + 1
    /\ chat_args' \in ChatArgs
    /\ cpc' = "get_patient"
    /\ chat_outcome' = "none"
    /\ chat_calls' = <<>>
    /\ recent_messages' = <<>>
    /\ messages_at_start' = chat_messages
    /\ UNCHANGED <<pipeline, transcript_vars, chat_messages>>

\* Line 24: patient = self.db_port.get_patient(patient_id)
ChatGetPatient ==
    /\ cpc = "get_patient"
    /\ chat_calls' = Append(chat_calls, "get_patient")
    /\ IF chat_args.patient_id \in patients
       THEN cpc' = "get_clinical_trial" /\ UNCHANGED chat_outcome
       ELSE ChatRaise("PatientNotFoundError")
    /\ UNCHANGED <<pipeline, transcript_vars, asks, chat_args, chat_messages,
                   recent_messages, messages_at_start>>

\* Line 25: trial = await self.clinical_trials_port.get_clinical_trial(...)
ChatGetClinicalTrial ==
    /\ cpc = "get_clinical_trial"
    /\ chat_calls' = Append(chat_calls, "get_clinical_trial")
    /\ IF chat_args.clinical_trial_id \in registry
       THEN cpc' = "store_user" /\ UNCHANGED chat_outcome
       ELSE ChatRaise("Exception")
    /\ UNCHANGED <<pipeline, transcript_vars, asks, chat_args, chat_messages,
                   recent_messages, messages_at_start>>

\* Lines 27-28: store the user's message.
StoreUserMessage ==
    /\ cpc = "store_user"
    /\ chat_calls' = Append(chat_calls, "create_chat_message user")
    /\ \/ /\ chat_messages' = Append(chat_messages, ChatMessage("user"))
          /\ cpc' = "get_chat_messages"
          /\ UNCHANGED chat_outcome
       \/ /\ storage_fails
          /\ ChatRaise("StorageError")
          /\ UNCHANGED chat_messages
    /\ UNCHANGED <<pipeline, transcript_vars, asks, chat_args, recent_messages,
                   messages_at_start>>

\* Line 30: the last four messages of the session.
GetChatMessages ==
    /\ cpc = "get_chat_messages"
    /\ chat_calls' = Append(chat_calls, "get_chat_messages")
    /\ \/ /\ recent_messages' =
                LastN(SessionMessages(chat_messages, chat_args.session_id), 4)
          /\ cpc' = "call_llm"
          /\ UNCHANGED chat_outcome
       \/ /\ storage_fails
          /\ ChatRaise("StorageError")
          /\ UNCHANGED recent_messages
    /\ UNCHANGED <<pipeline, transcript_vars, asks, chat_args, chat_messages,
                   messages_at_start>>

\* (the same with the user's message withdrawn when the LLM call fails)
ChatCallLlmWithdrawing ==
    /\ cpc = "call_llm"
    /\ chat_calls' = Append(chat_calls, "call_llm")
    /\ \/ cpc' = "store_bot" /\ UNCHANGED <<chat_outcome, chat_messages>>
       \/ /\ ChatRaise("LLMError")
          /\ chat_messages' = SubSeq(chat_messages, 1, Len(chat_messages) - 1)
    /\ UNCHANGED <<pipeline, transcript_vars, asks, chat_args, recent_messages,
                   messages_at_start>>

\* Lines 32-81: build the prompt and call the LLM, which answers or raises.
ChatCallLlm ==
    /\ cpc = "call_llm"
    /\ chat_calls' = Append(chat_calls, "call_llm")
    /\ \/ cpc' = "store_bot" /\ UNCHANGED chat_outcome
       \/ ChatRaise("LLMError")
    /\ UNCHANGED <<pipeline, transcript_vars, asks, chat_args, chat_messages,
                   recent_messages, messages_at_start>>

\* Lines 83-84: store the bot's reply and return.
StoreBotMessage ==
    /\ cpc = "store_bot"
    /\ chat_calls' = Append(chat_calls, "create_chat_message bot")
    /\ cpc' = "done"
    /\ \/ /\ chat_messages' = Append(chat_messages, ChatMessage("bot"))
          /\ chat_outcome' = "returned"
       \/ /\ storage_fails
          /\ chat_outcome' = "StorageError"
          /\ UNCHANGED chat_messages
    /\ UNCHANGED <<pipeline, transcript_vars, asks, chat_args, recent_messages,
                   messages_at_start>>

NextChat ==
    \/ Ask
    \/ ChatGetPatient
    \/ ChatGetClinicalTrial
    \/ StoreUserMessage
    \/ GetChatMessages
    \/ ChatCallLlm
    \/ StoreBotMessage

SpecChat == Init /\ [][NextChat]_vars


\* ------------------------------------------------------------------ claims
Done == pc = "done"
Called(op) == op \in Range(calls)
LlmCalls == {i \in 1..Len(calls) :
                calls[i] \in {"llm_classify", "llm_rank_eligible", "llm_rank_uncertain"}}
RecordWrites == {i \in 1..Len(calls) : calls[i] \in {"create_recs", "update_recs"}}
\* The trial search of this run has answered with a list.
Searched == Called("search") /\ resp.search.t = "list"
\* The external ids behind a stored list of uuids.
ExternalIds(uuids) == {uuids[i][2] : i \in 1..Len(uuids)}
\* The rows storage holds for the transcript of the current run.
Records == {transcript_recommendations[i] : i \in RowsOf(transcript_id)}
ClsFellBack == /\ Called("llm_classify")
               /\ \/ resp.cls.t \in {"raise", "nonobj"}
                  \/ resp.cls.t = "obj" /\ resp.cls.keys # ClsKeys
RankFellBack(r) == r.t \in {"raise", "nonobj"} \/ (r.t = "obj" /\ ~r.has)

\* C1: whenever the trial search returns an empty list, the run ends by
\* returning, storage holds a recommendation record of the transcript with
\* both lists empty, and the run made no LLM call and no trial upsert.
C1_EmptyShortCircuit ==
    (Done /\ Searched /\ Len(resp.search.v) = 0) =>
        /\ outcome = "returned"
        /\ LlmCalls = {}
        /\ upserted = <<>>
        /\ Records # {}
        /\ \A r \in Records : r.eligible_trials = <<>> /\ r.uncertain_trials = <<>>

\* C2: when the classifier's LLM call raises, or gives a non-object or an
\* object lacking an expected key, the partition is empty, no ranking call is
\* made, the run returns, and the stored record has both lists empty.
C2_ClassifierFallback ==
    ClsFellBack =>
        /\ eligible_trial_ids = EmptyList /\ uncertain_trial_ids = EmptyList
        /\ ~Called("llm_rank_eligible") /\ ~Called("llm_rank_uncertain")
        /\ Done => /\ outcome = "returned"
                   /\ Records # {}
                   /\ \A r \in Records : r.eligible_trials = <<>> /\ r.uncertain_trials = <<>>

C4_DefensiveFilter ==
    \A i \in 1..Len(written) :
        /\ Range(written[i].eligible.v) \subseteq Range(eligible_trial_ids.v)
        /\ Range(written[i].uncertain.v) \subseteq Range(uncertain_trial_ids.v)

\* C5: every identifier in the recommendation record a run has stored is the
\* external id of a trial in the candidate list of that run's trial search.
C5_StoredIdsAreCandidates ==
    (Done /\ Len(written) > 0 /\ written[Len(written)].ok) =>
        \A r \in Records :
            ExternalIds(r.eligible_trials) \cup ExternalIds(r.uncertain_trials)
                \subseteq Range(initial_trials)

\* C6: a run whose patient or transcript lookup finds nothing raises
\* PatientNotFoundError or TranscriptNotFoundError, and has made no call
\* but the lookups: no trial search, no LLM call, no write to storage.
C6_StructuralErrorsAbort ==
    /\ (Done /\ patient_id \notin patients) =>
          outcome = "PatientNotFoundError" /\ calls = <<"get_patient">>
    /\ (Done /\ patient_id \in patients /\ transcript_id \notin transcripts) =>
          outcome = "TranscriptNotFoundError" /\ calls = <<"get_patient", "get_transcript">>
    /\ (pc \notin {"idle", "get_patient"} /\ patient_id \notin patients) => Done
    /\ (pc \notin {"idle", "get_patient", "get_transcript"}
          /\ transcript_id \notin transcripts) => Done

\* A second run, on a storage that holds a record, ended by the missing patient.
C6_Witness ==
    /\ Done /\ patient_id = "P0" /\ outcome = "PatientNotFoundError"
    /\ transcript_recommendations # <<>>

\* C7: in every run whose trial search returns a non-empty list, an upsert is
\* attempted for every candidate, whatever the classifier and ranker gave.
C7_AllCandidatesUpserted ==
    (Done /\ Searched /\ Len(resp.search.v) > 0) => upserted = initial_trials

\* C8: a second call with the same arguments and the same answers of trial
\* search, classifier and ranker leaves the stored record as the first call
\* left it, and exactly one record for the transcript.
C8_Idempotence ==
    (Done /\ replay /\ outcome = "returned") =>
        /\ transcript_recommendations = recsAtStart
        /\ Cardinality(RowsOf(transcript_id)) = 1

\* C9: every run that gets past the lookups and the trial search invokes the
\* recommendation write (create or update) exactly once.
C9_OneRecordWrite ==
    (Done /\ Searched) => Cardinality(RecordWrites) = 1

\* C10: whatever the classifier's and the ranker's LLM calls yield, the run
\* does not raise and reaches the persistence of trials and recommendations.
C10_JudgmentFailuresNeverAbort ==
    (Done /\ Called("llm_classify")) =>
        /\ outcome = "returned"
        /\ Called("upsert")
        /\ Called("get_recs")


\* A call on the recommendation record raised in this run and was logged.
RecordCallRaised ==
    \/ Done /\ outcome = "returned" /\ Called("get_recs") /\ RecordWrites = {}
    \/ \E i \in 1..Len(written) : ~written[i].ok

\* C1, C2 on the runs in which no call on the recommendation record raised:
\* the empty path and the classifier's fallback both end with a stored record
\* whose two lists are empty.
EmptyRecordStoredUnlessRaised ==
    (Done /\ Searched /\ ~RecordCallRaised
          /\ (Len(resp.search.v) = 0 \/ ClsFellBack)) =>
        /\ outcome = "returned"
        /\ Len(resp.search.v) = 0 => LlmCalls = {} /\ upserted = <<>>
        /\ Records # {}
        /\ \A r \in Records : r.eligible_trials = <<>> /\ r.uncertain_trials = <<>>

\* C7, C9 on the runs that return: every candidate was handed to the upsert,
\* and the record was written once unless its read raised.
PersistenceOfReturningRuns ==
    (Done /\ Searched /\ outcome = "returned") =>
        /\ upserted = initial_trials
        /\ Cardinality(RecordWrites) <= 1
        /\ RecordWrites = {} => calls[Len(calls)] = "get_recs"


\* The external ids behind a stored list of uuids, in the stored order.
ExternalIdList(uuids) == [i \in 1..Len(uuids) |-> uuids[i][2]]
\* How often this run made the call op.
Count(op) == Cardinality({i \in 1..Len(calls) : calls[i] = op})

\* C11: whenever a run returns normally, storage holds a recommendation
\* record of the transcript, and its two lists are the ranked lists this run
\* computed.
C11_NormalReturnMeansRecordStored ==
    (Done /\ outcome = "returned") =>
        /\ Records # {}
        /\ \A r \in Records :
              /\ ExternalIdList(r.eligible_trials) = ranked_eligible_trial_ids.v
              /\ ExternalIdList(r.uncertain_trials) = ranked_uncertain_trial_ids.v

\* C12 as stated: no identifier is in both lists of the classifier's
\* partition, and none is in both lists of a stored record.
C12_Disjointness ==
    /\ Range(eligible_trial_ids.v) \cap Range(uncertain_trial_ids.v) = {}
    /\ \A r \in Records :
          ExternalIds(r.eligible_trials) \cap ExternalIds(r.uncertain_trials) = {}

\* C12: the partition is the two lists of the LLM's object as they are, and
\* is empty when the classifier fell back: an identifier is in both lists of
\* the partition exactly when the LLM put it in both.
C12_PartitionAsGiven ==
    Called("llm_classify") =>
        IF resp.cls.t = "obj" /\ resp.cls.keys = ClsKeys
        THEN eligible_trial_ids = resp.cls.e /\ uncertain_trial_ids = resp.cls.u
        ELSE eligible_trial_ids = EmptyList /\ uncertain_trial_ids = EmptyList

\* A run whose classifier was given NCT1 in both lists, and that stored a
\* record with NCT1 in both lists.
C12_Witness ==
    /\ Done /\ outcome = "returned" /\ Called("llm_classify") /\ ~ClsFellBack
    /\ "NCT1" \in Range(resp.cls.e.v) \cap Range(resp.cls.u.v)
    /\ "NCT1" \in Range(eligible_trial_ids.v) \cap Range(uncertain_trial_ids.v)
    /\ \E r \in Records :
          "NCT1" \in ExternalIds(r.eligible_trials) \cap ExternalIds(r.uncertain_trials)

\* C13: a run with candidates calls the classifier once and the ranker once
\* for each non-empty list of the partition, never for an empty one (whose
\* ranked list is then empty): one LLM request plus one per non-empty list.
C13_LlmCallCount ==
    (Done /\ Searched /\ Len(resp.search.v) > 0) =>
        LET e == IF Truthy(eligible_trial_ids) THEN 1 ELSE 0
            u == IF Truthy(uncertain_trial_ids) THEN 1 ELSE 0
        IN  /\ Count("llm_classify") = 1
            /\ Count("llm_rank_eligible") = e
            /\ Count("llm_rank_uncertain") = u
            /\ e = 0 => ranked_eligible_trial_ids = EmptyList
            /\ u = 0 => ranked_uncertain_trial_ids = EmptyList
            /\ Cardinality(LlmCalls) = 1 + e + u

\* C14: whichever upserts of the loop raise, the upsert is attempted for
\* every candidate, the recommendation write (create or update) is attempted,
\* and the run does not raise.
C14_UpsertFailuresIsolated ==
    (Done /\ Called("upsert")) =>
        /\ upserted = initial_trials
        /\ RecordWrites # {}
        /\ outcome = "returned"

\* C15: a run whose read of the prior record raised goes on as if there were
\* no record and calls create_transcript_recommendations.
C15_FailedReadMeansCreate ==
    (Done /\ Called("get_recs") /\ existing_recommendations = "unset") =>
        Called("create_recs")


\* C13 on the runs that return: the LLM requests are the classifier's and one
\* per non-empty list of the partition.
LlmCallCountOfReturningRuns ==
    (Done /\ Searched /\ Len(resp.search.v) > 0 /\ outcome = "returned") => C13_LlmCallCount

\* C14 up to the read of the prior record: whichever upserts raise, every
\* candidate is handed to the upsert, the run reads the prior record, and it
\* returns.
UpsertLoopNeverAborts ==
    (Done /\ Called("upsert")) =>
        /\ upserted = initial_trials
        /\ Called("get_recs")
        /\ outcome = "returned"

\* C16 (storage not failing, SpecReliable): after every run the search
\* answered, storage holds exactly one record of the transcript, with the
\* lists of that run; a run that found no record called create, a run that
\* found one called update and never create; nothing was deleted.
C16_OneRecordPerTranscript ==
    (Done /\ Searched) =>
        /\ Cardinality(RowsOf(transcript_id)) = 1
        /\ \A r \in Records :
              /\ ExternalIdList(r.eligible_trials) = ranked_eligible_trial_ids.v
              /\ ExternalIdList(r.uncertain_trials) = ranked_uncertain_trial_ids.v
        /\ runNo = 1 => Count("create_recs") = 1 /\ Count("update_recs") = 0
        /\ replay => Count("update_recs") = 1 /\ Count("create_recs") = 0
        /\ replay => Len(transcript_recommendations) >= Len(recsAtStart)

\* C16 on the runs that return (storage not failing, SpecReliable): one
\* record, created by the run that found none and updated by the others, and
\* holding the ids of the run's ranked lists that have a row in clinical_trials.
OneRecordAfterReturningRuns ==
    (Done /\ Searched /\ outcome = "returned") =>
        /\ Cardinality(RowsOf(transcript_id)) = 1
        /\ \A r \in Records :
              /\ ExternalIds(r.eligible_trials)
                    = Range(ranked_eligible_trial_ids.v) \cap clinical_trials
              /\ ExternalIds(r.uncertain_trials)
                    = Range(ranked_uncertain_trial_ids.v) \cap clinical_trials
        /\ Count("create_recs") + Count("update_recs") = 1
        /\ Called("create_recs") <=> existing_recommendations = "None"
        /\ replay => Called("update_recs")
        /\ runNo = 1 => Called("create_recs")


\* ------------------------------------------------- claims on call_llm_json
LlmCalled == llm_result # NoCall
\* A text json.loads accepts.
IsJsonText(x) == JsonLoads(x).t = "value"
Wrapped(j) == JsonFence \o j \o Fence
\* The completion is a text that is not JSON once the fences are stripped.
Malformed == completion.t = "text" /\ ~IsJsonText(CleanedText(completion.v))

\* C17: for every JSON text j, the call on j wrapped in the opening and the
\* closing fence returns the value the call on j alone returns, the parsed j;
\* a second fence is not stripped; a completion that is not JSON after the
\* stripping gives an error, not a value.
C17_FenceTolerance ==
    (LlmCalled /\ completion.t = "text") =>
        LET x == completion.v
            j == SubSeq(x, 8, Len(x) - 3)
        IN  /\ IsJsonText(x) => llm_result = JsonLoads(x)
            /\ (Len(x) >= 10 /\ x = Wrapped(j) /\ IsJsonText(j)) =>
                  /\ llm_result = JsonLoads(j)
                  /\ llm_result = call_llm_json([t |-> "text", v |-> j, msg |-> <<>>])
            /\ (StartsWith(x, JsonFence \o JsonFence) \/ EndsWith(x, Fence \o Fence)) =>
                  llm_result.t # "value"
            /\ Malformed => llm_result.t # "value"

\* The call on a fenced JSON string that itself holds a fence returned the string.
C17_Witness ==
    /\ completion.t = "text"
    /\ completion.v = Wrapped(<<Quote>> \o Fence \o <<Quote>>)
    /\ llm_result.t = "value"
    /\ llm_result.v = <<Quote>> \o Fence \o <<Quote>>

\* C18 as stated: an unparseable completion gives a MalformedLLMOutput error
\* that carries the raw text, a failed request an LLMCallFailed error.
C18_TwoErrorTypes ==
    LlmCalled =>
        /\ Malformed => llm_result.t = "MalformedLLMOutput" /\ llm_result.v = completion.v
        /\ completion.t = "raise" => llm_result.t = "LLMCallFailed"

\* C18: both failures raise RuntimeError, with a message that begins
\* "Failed to call Gemini LLM for JSON: "; for an unparseable completion it
\* goes on with "LLM response is not valid JSON: " and the decoder's message,
\* for a failed request with the message of the request's exception.  The
\* error does not carry the raw text.
C18_RuntimeErrorForBoth ==
    LlmCalled =>
        /\ Malformed =>
              /\ llm_result.t = "RuntimeError"
              /\ llm_result.msg = <<"Failed to call Gemini LLM for JSON: ",
                                    "LLM response is not valid JSON: ", "Expecting value">>
              /\ llm_result.v = <<>>
        /\ completion.t = "raise" =>
              /\ llm_result.t = "RuntimeError"
              /\ llm_result.msg = <<"Failed to call Gemini LLM for JSON: ">> \o completion.msg
              /\ llm_result.v = <<>>

\* The call on a fenced text that is not JSON raised.
C18_Witness ==
    /\ completion.t = "text" /\ completion.v = Wrapped(<<"[">>)
    /\ llm_result.t = "RuntimeError"


\* ------------------------------------------------ claims on concurrent runs
AllDone == \A p \in Procs : runs[p].pc = "done"

\* C19 (storage not failing): when two runs for the transcript, started with
\* no record stored, have both ended, both have made their write, and storage
\* holds exactly one record of the transcript, with the lists of the run
\* whose write came last.
C19_LastWriterWins ==
    (~storage_fails /\ AllDone /\ \A p \in Procs : runs[p].transcript_id = "T1") =>
        /\ Len(writeOrder) = Cardinality(Procs)
        /\ Cardinality(RowsOf("T1")) = 1
        /\ \A i \in RowsOf("T1") :
              LET r == transcript_recommendations[i]
                  last == runs[writeOrder[Len(writeOrder)]]
              IN  /\ ExternalIdList(r.eligible_trials) = last.ranked_eligible_trial_ids
                  /\ ExternalIdList(r.uncertain_trials) = last.ranked_uncertain_trial_ids

\* C20: in every state, between any two steps of the concurrent runs, each
\* stored record holds an eligible and an uncertain list that come from the
\* lists of one and the same run, one that has made its write.
C20_NoPartialRecord ==
    \A i \in 1..Len(transcript_recommendations) :
        \E k \in 1..Len(writeOrder) :
            LET r == transcript_recommendations[i]
                w == runs[writeOrder[k]]
            IN  /\ ExternalIds(r.eligible_trials) \subseteq Range(w.ranked_eligible_trial_ids)
                /\ ExternalIds(r.uncertain_trials)
                      \subseteq Range(w.ranked_uncertain_trial_ids)

\* run2 has overwritten the record of run1, whose lists were the other way round.
C20_Witness ==
    /\ writeOrder = <<"run1", "run2">>
    /\ runs["run2"].transcript_id = "T1"
    /\ runs["run2"].existing_recommendations = "dict"
    /\ runs["run1"].ranked_eligible_trial_ids = <<"NCT1">>
    /\ runs["run1"].ranked_uncertain_trial_ids = <<"NCT2">>
    /\ runs["run2"].ranked_eligible_trial_ids = <<"NCT2">>
    /\ runs["run2"].ranked_uncertain_trial_ids = <<"NCT1">>
    /\ transcript_recommendations =
          <<[transcript_id |-> "T1", eligible_trials |-> <<Uuid("NCT2")>>,
             uncertain_trials |-> <<Uuid("NCT1")>>]>>

\* ------------------------------------------------- claims C21 and following
\* The stage of the pipeline an external call belongs to.
Stage(op) ==
    CASE op = "get_patient" -> 1
      [] op = "get_transcript" -> 2
      [] op = "search" -> 3
      [] op = "llm_classify" -> 4
      [] op = "llm_rank_eligible" -> 5
      [] op = "llm_rank_uncertain" -> 6
      [] op = "upsert" -> 7
      [] op = "get_recs" -> 8
      [] op \in {"create_recs", "update_recs"} -> 9

\* C21: the external calls of a run come in the order of the stages: the two
\* lookups, the trial search, the classifier, the ranking of the eligible
\* list, the ranking of the uncertain list, the upserts, the read of the
\* record, its write; only the upsert is made more than once; when the record
\* is read in a run with candidates, the upsert of every candidate has been
\* attempted; and no call follows the write of the record.
C21_StageOrdering ==
    /\ \A i \in 1..(Len(calls) - 1) :
          \/ Stage(calls[i]) < Stage(calls[i + 1])
          \/ calls[i] = "upsert" /\ calls[i + 1] = "upsert"
    /\ (Called("get_recs") /\ Len(initial_trials) > 0) => upserted = initial_trials
    /\ \A i \in RecordWrites : i = Len(calls)

\* A run with two candidates that made every call of the pipeline.
C21_Witness ==
    /\ Done /\ outcome = "returned"
    /\ calls = <<"get_patient", "get_transcript", "search", "llm_classify",
                 "llm_rank_eligible", "llm_rank_uncertain", "upsert", "upsert",
                 "get_recs", "update_recs">>

\* C22: the trials in the prompt of a ranking call are the candidates whose
\* id is in the list of the partition the call ranks: each of them, no other
\* candidate, each once, in the order of the candidate list.
C22_RankerShownOwnPartition ==
    /\ Called("llm_rank_eligible") =>
          /\ Range(trials_text.eligible)
                = Range(initial_trials) \cap Range(eligible_trial_ids.v)
          /\ \E f \in [1..Len(trials_text.eligible) -> 1..Len(initial_trials)] :
                /\ \A i \in DOMAIN f : initial_trials[f[i]] = trials_text.eligible[i]
                /\ \A i, j \in DOMAIN f : i < j => f[i] < f[j]
    /\ Called("llm_rank_uncertain") =>
          /\ Range(trials_text.uncertain)
                = Range(initial_trials) \cap Range(uncertain_trial_ids.v)
          /\ \E f \in [1..Len(trials_text.uncertain) -> 1..Len(initial_trials)] :
                /\ \A i \in DOMAIN f : initial_trials[f[i]] = trials_text.uncertain[i]
                /\ \A i, j \in DOMAIN f : i < j => f[i] < f[j]

\* The eligible ranking was shown the two candidates in candidate order, the
\* classifier having listed them the other way round, and the uncertain
\* ranking was shown the second candidate alone.
C22_Witness ==
    /\ Called("llm_rank_eligible") /\ Called("llm_rank_uncertain")
    /\ initial_trials = <<"NCT1", "NCT2">>
    /\ eligible_trial_ids = ListVal(<<"NCT2", "NCT1">>)
    /\ uncertain_trial_ids = ListVal(<<"NCT2">>)
    /\ trials_text = [eligible |-> <<"NCT1", "NCT2">>, uncertain |-> <<"NCT2">>]

\* C23: when no external call hangs (SpecFair), every run that has started
\* ends in the end, by returning or by raising.
C23_Termination == (pc \notin {"idle", "done"}) ~> (Done /\ outcome # "none")

\* A run that went twice through the loop over the candidates has ended.
C23_Witness ==
    /\ Done /\ outcome = "returned" /\ Count("upsert") = 2 /\ Called("update_recs")

\* C24: no step of a run up to the trial search writes to storage, and the
\* step in which the trial search raises ends the run with that exception:
\* the run has called the two lookups and the search and nothing else (no
\* LLM, no upsert, no write of the record), and the tables are as they were.
C24_SearchErrorPropagates ==
    [][/\ pc \in {"get_patient", "get_transcript", "search"} => UNCHANGED storage
       /\ (pc = "search" /\ resp'.search.t = "raise") =>
             /\ pc' = "done"
             /\ outcome' = "SearchError"
             /\ calls' = <<"get_patient", "get_transcript", "search">>
             /\ upserted' = <<>> /\ written' = <<>>]_vars

\* A second run, on tables that hold a record and a trial, ended by the
\* exception of the trial search.
C24_Witness ==
    /\ Done /\ outcome = "SearchError" /\ resp.search.t = "raise"
    /\ transcript_recommendations # <<>> /\ clinical_trials # {}

\* The last write of the record in this run did not raise.
Stored == Done /\ Len(written) > 0 /\ written[Len(written)].ok

\* C25 (storage not failing, SpecReliable): after a run has written its two
\* lists with create or update, every read of the transcript's record gives
\* these two lists, the same ids in the same order.
C25_RoundTripKeepsRanking ==
    Stored =>
        \A d \in RecommendationsRead(transcript_id) :
            /\ d.eligible_trial_ids = written[Len(written)].eligible.v
            /\ d.uncertain_trial_ids = written[Len(written)].uncertain.v

\* C25, what the round trip keeps (storage not failing, SpecReliable): the
\* read gives, in some order and each once, the written ids that have a row
\* in clinical_trials.
RoundTripKeepsStoredIds ==
    Stored =>
        \A d \in RecommendationsRead(transcript_id) :
            /\ Range(d.eligible_trial_ids)
                  = Range(written[Len(written)].eligible.v) \cap clinical_trials
            /\ Range(d.uncertain_trial_ids)
                  = Range(written[Len(written)].uncertain.v) \cap clinical_trials
            /\ Len(d.eligible_trial_ids) = Cardinality(Range(d.eligible_trial_ids))
            /\ Len(d.uncertain_trial_ids) = Cardinality(Range(d.uncertain_trial_ids))

\* ---------------------------------------- claims on runs of two transcripts
\* The records of a transcript among the given rows, in table order.
RecordsOf(rows, tid) == SelectSeq(rows, LAMBDA r : r.transcript_id = tid)

\* C26: a step of a run for a transcript T leaves the records of every other
\* transcript as they were, whatever the other run has done in between, and
\* what the run reads is whether T has a record.
C26_CrossRunIsolation ==
    [][\A p \in Procs :
          runs'[p] # runs[p] =>
              /\ \A tid \in ConcTranscripts \ {runs'[p].transcript_id} :
                    RecordsOf(transcript_recommendations', tid)
                        = RecordsOf(transcript_recommendations, tid)
              /\ runs'[p].pc = "write_recs" =>
                    runs'[p].existing_recommendations
                        = IF RecordsOf(transcript_recommendations, runs[p].transcript_id) # <<>>
                          THEN "dict" ELSE "None"]_vars

\* The run for T2 stored its record, then the run for T1 stored another; the
\* record of T2 is as the run for T2 wrote it.
C26_Witness ==
    /\ writeOrder = <<"run2", "run1">>
    /\ runs["run2"].transcript_id = "T2"
    /\ transcript_recommendations =
          <<[transcript_id |-> "T2", eligible_trials |-> <<Uuid("NCT2")>>,
             uncertain_trials |-> <<Uuid("NCT1")>>],
            [transcript_id |-> "T1", eligible_trials |-> <<Uuid("NCT1")>>,
             uncertain_trials |-> <<>>]>>

\* C28: when the classifier's LLM gave an object with exactly one of the two
\* keys, both lists of the partition are empty, the list under the key that
\* was there being dropped; a list of the partition is other than empty only
\* when the object had both keys.
C28_OneKeyUnusable ==
    Called("llm_classify") =>
        /\ (resp.cls.t = "obj" /\ Cardinality(resp.cls.keys) = 1) =>
              eligible_trial_ids = EmptyList /\ uncertain_trial_ids = EmptyList
        /\ (eligible_trial_ids # EmptyList \/ uncertain_trial_ids # EmptyList) =>
              resp.cls.t = "obj" /\ resp.cls.keys = ClsKeys

\* The LLM named the two candidates under eligible_trial_ids alone; the
\* partition is empty, no ranking was made, and the run has ended.
C28_Witness ==
    /\ Done /\ Called("llm_classify")
    /\ resp.cls = ClsObj({"eligible_trial_ids"}, ListVal(<<"NCT1", "NCT2">>), NoneVal)
    /\ initial_trials = <<"NCT1", "NCT2">>
    /\ eligible_trial_ids = EmptyList /\ uncertain_trial_ids = EmptyList
    /\ ~Called("llm_rank_eligible")

\* ------------------------------------------- claims on transcript processing
\* The ParsedTranscript objects constructed so far, each with the dict it
\* was made from.
Constructed ==
    (IF tpc \in {"create", "done"} /\ extraction.t = "dict"
     THEN {[from |-> extraction.fields, made |-> parsed_transcript]} ELSE {})
    \cup (IF tpc = "read"
          THEN {[from |-> transcript_data, made |-> read_transcript]} ELSE {})

\* C27 as stated: every list field of a constructed ParsedTranscript is a list.
C27_ListFieldsAreLists ==
    \A c \in Constructed : \A k \in ListFields : c.made[k].t = "list"

\* C27: no list field of a constructed ParsedTranscript is null; a field
\* that is null or absent in the LLM's object or in the row is the empty
\* list, and so is one that holds an empty value; a list is kept as it is,
\* and so is a value that is not a list and not empty.
C27_ListFieldsDefaultToEmpty ==
    \A c \in Constructed : \A k \in ListFields :
        /\ c.made[k].t \notin {"null", "absent"}
        /\ c.from[k].t \in {"null", "absent"} => c.made[k] = EmptyList
        /\ c.from[k].t = "list" => c.made[k] = c.from[k]
        /\ c.from[k].t = "str" =>
              c.made[k] = IF c.from[k].v = <<>> THEN EmptyList ELSE c.from[k]

\* A row with a null, an absent and a filled list field was read.
C27_Witness ==
    /\ tpc = "read"
    /\ transcript_data = [conditions |-> NoneVal, medications |-> Absent,
                           extraction_notes |-> ListVal(<<"hypertension">>)]
    /\ read_transcript = [conditions |-> EmptyList, medications |-> EmptyList,
                           extraction_notes |-> ListVal(<<"hypertension">>)]

\* C29: when the LLM call or the parsing of its answer fails, create_transcript
\* is not called, no row is stored, and the handler's response has status
\* "error", the text of the exception and no transcript id; a response with
\* status "success" carries the id of a row that create_transcript stored and
\* no error; the handler gives no other status.
C29_AllOrNothing ==
    tpc = "done" =>
        /\ extraction.t \in {"raise", "nondict"} =>
              /\ transcript_calls = <<"call_llm_json">>
              /\ created_transcripts = <<>>
              /\ transcript_response.status = "error"
              /\ transcript_response.error # <<>>
              /\ transcript_response.transcript_id = <<>>
        /\ transcript_response.status \in {"success", "error"}
        /\ transcript_response.status = "success" =>
              /\ transcript_calls = <<"call_llm_json", "create_transcript">>
              /\ Len(created_transcripts) = 1
              /\ transcript_response.transcript_id = TranscriptId(1)
              /\ created_transcripts[1] = parsed_transcript
              /\ transcript_response.error = <<>>
        /\ transcript_response.status = "error" =>
              /\ created_transcripts = <<>>
              /\ transcript_response.transcript_id = <<>>

\* The LLM gave a JSON value that is no object; the handler answered with
\* the error and nothing was stored.
C29_Witness ==
    /\ tpc = "done" /\ extraction.t = "nondict"
    /\ transcript_response = ErrorResponse("object has no attribute 'get'")
    /\ created_transcripts = <<>>

\* ------------------------------------------------------------ claims on chat
\* The messages the current call has stored, in the order it stored them.
NewMessages == SubSeq(chat_messages, Len(messages_at_start) + 1, Len(chat_messages))
ChatDone == cpc = "done"
ChatCalled(op) == \E i \in 1..Len(chat_calls) : chat_calls[i] = op

\* C30: a call stores messages in its own session only and changes no
\* earlier one; a call that returns has stored exactly two, the user's and
\* then the bot's; when the chat history is read or the LLM is called, the
\* user's message is stored already, and the history read ends with it; a
\* call ended by a failing LLM call has stored the user's message alone; a
\* call ended by the patient or the trial lookup has stored none.
C30_ChatMessageOrdering ==
    /\ SubSeq(chat_messages, 1, Len(messages_at_start)) = messages_at_start
    /\ (ChatDone /\ chat_outcome = "returned") =>
          NewMessages = <<ChatMessage("user"), ChatMessage("bot")>>
    /\ (ChatCalled("get_chat_messages") \/ ChatCalled("call_llm")) =>
          /\ Len(NewMessages) >= 1 /\ NewMessages[1] = ChatMessage("user")
          /\ Len(chat_calls) >= 3 /\ chat_calls[3] = "create_chat_message user"
    /\ ChatCalled("call_llm") =>
          /\ chat_calls[4] = "get_chat_messages"
          /\ recent_messages # <<>>
          /\ recent_messages[Len(recent_messages)] = ChatMessage("user")
    /\ (ChatDone /\ chat_outcome = "LLMError") => NewMessages = <<ChatMessage("user")>>
    /\ (ChatDone /\ chat_outcome \in {"PatientNotFoundError", "Exception"}) =>
          /\ NewMessages = <<>>
          /\ ~ChatCalled("create_chat_message user")

\* The second call in session s1 returned: the session holds the user's
\* message of the first call, whose LLM call failed, without a reply, then
\* the two of the second.
C30_Witness ==
    /\ ChatDone /\ chat_outcome = "returned" /\ asks = 2
    /\ chat_messages = <<[session_id |-> "s1", sender |-> "user", ask |-> 1],
                         [session_id |-> "s1", sender |-> "user", ask |-> 2],
                         [session_id |-> "s1", sender |-> "bot", ask |-> 2]>>
    /\ recent_messages = <<[session_id |-> "s1", sender |-> "user", ask |-> 1],
                           [session_id |-> "s1", sender |-> "user", ask |-> 2]>>

====
